---------------------------- MODULE Spec2Model ----------------------------
(***************************************************************************)
(* Model of scripts/data_insertion.py: the six table cleaners, the row     *)
(* materializer, the chunked conflict-skip loader and the orchestrating    *)
(* main() with its single transaction.                                     *)
(*                                                                         *)
(* Two specifications live here:                                           *)
(*   Spec       main() run MaxRuns times against one destination database  *)
(*   SpecClean  the six cleaners applied to bounded raw tables             *)
(***************************************************************************)
EXTENDS Integers, Sequences, FiniteSets, TLC

(***************************************************************************)
(* Bounds of the model.                                                    *)
(***************************************************************************)
\* rows of the largest source table of a pipeline run
MaxRows == 3
\* consecutive runs of main() against the same destination
MaxRuns == 2
\* SpecClean: rows of a raw table whose keys vary
MaxKeyRows == 3
\* SpecClean: rows of a raw table whose other columns vary
MaxColRows == 2
\* rows per insert statement: the script's BATCH_SIZE (5000), scaled down so
\* that a table of MaxRows rows is loaded in more than one chunk
BATCH_SIZE == 2

\* pd.Timestamp.today().year, read by clean_pricing
current_year == 2026

(***************************************************************************)
(* Cell values.  A DataFrame cell is absent (NaN / pd.NA / None), an       *)
(* integer, a float, a bool or a text.  Numbers are kept as exact          *)
(* decimals: sign, integer part, fractional digits without trailing zeros. *)
(* Texts are sequences of one-character strings.  Every cell is a record   *)
(* of the same shape so that cells of different kinds can be compared.     *)
(***************************************************************************)
Cell(k, neg, ip, fr, s, b) ==
    [k |-> k, neg |-> neg, ip |-> ip, fr |-> fr, s |-> s, b |-> b]

NA == Cell("na", FALSE, 0, <<>>, <<>>, FALSE)

IntC(n) == Cell("int", n < 0, IF n < 0 THEN -n ELSE n, <<>>, <<>>, FALSE)

FloatC(neg, ip, fr) == Cell("float", neg, ip, fr, <<>>, FALSE)

StrC(s) == Cell("str", FALSE, 0, <<>>, s, FALSE)

BoolC(b) == Cell("bool", FALSE, 0, <<>>, <<>>, b)

IsNA(c) == c.k = "na"

IsNum(c) == c.k \in {"int", "float"}

IsZero(c) == c.ip = 0 /\ c.fr = <<>>

IsNegative(c) == c.neg /\ ~IsZero(c)

IsIntegral(c) == c.fr = <<>>

SignedVal(c) == IF c.neg THEN -c.ip ELSE c.ip

(***************************************************************************)
(* Text helpers: str.strip, str.lower, the decimal digits of a number.     *)
(***************************************************************************)
IsSpace(ch) == ch \in {" ", "\t", "\n", "\r"}

RECURSIVE LStrip(_)
LStrip(s) ==
    IF s # <<>> /\ IsSpace(Head(s)) THEN LStrip(Tail(s)) ELSE s

RECURSIVE RStrip(_)
RStrip(s) ==
    IF s # <<>> /\ IsSpace(s[Len(s)]) THEN RStrip(SubSeq(s, 1, Len(s) - 1)) ELSE s

Strip(s) == RStrip(LStrip(s))

LowerOf ==
    ("A" :> "a") @@ ("B" :> "b") @@ ("C" :> "c") @@ ("D" :> "d") @@ ("E" :> "e") @@
    ("F" :> "f") @@ ("G" :> "g") @@ ("H" :> "h") @@ ("I" :> "i") @@ ("J" :> "j") @@
    ("K" :> "k") @@ ("L" :> "l") @@ ("M" :> "m") @@ ("N" :> "n") @@ ("O" :> "o") @@
    ("P" :> "p") @@ ("Q" :> "q") @@ ("R" :> "r") @@ ("S" :> "s") @@ ("T" :> "t") @@
    ("U" :> "u") @@ ("V" :> "v") @@ ("W" :> "w") @@ ("X" :> "x") @@ ("Y" :> "y") @@
    ("Z" :> "z")

Lower(s) == [i \in DOMAIN s |-> IF s[i] \in DOMAIN LowerOf THEN LowerOf[s[i]] ELSE s[i]]

DigitVal ==
    ("0" :> 0) @@ ("1" :> 1) @@ ("2" :> 2) @@ ("3" :> 3) @@ ("4" :> 4) @@
    ("5" :> 5) @@ ("6" :> 6) @@ ("7" :> 7) @@ ("8" :> 8) @@ ("9" :> 9)

DigitChar == <<"0", "1", "2", "3", "4", "5", "6", "7", "8", "9">>

IsDigit(ch) == ch \in DOMAIN DigitVal

AllDigits(s) == \A i \in DOMAIN s : IsDigit(s[i])

RECURSIVE DigitsToNat(_)
DigitsToNat(s) ==
    IF s = <<>> THEN 0
    ELSE 10 * DigitsToNat(SubSeq(s, 1, Len(s) - 1)) + DigitVal[s[Len(s)]]

RECURSIVE NatToDigits(_)
NatToDigits(n) ==
    IF n < 10 THEN <<DigitChar[n + 1]>>
    ELSE NatToDigits(n \div 10) \o <<DigitChar[(n % 10) + 1]>>

RECURSIVE StripTrailingZeros(_)
StripTrailingZeros(ds) ==
    IF ds # <<>> /\ ds[Len(ds)] = 0 THEN StripTrailingZeros(SubSeq(ds, 1, Len(ds) - 1))
    ELSE ds

(***************************************************************************)
(* pd.to_numeric(..., errors="coerce") on one cell.  A text is parsed as   *)
(* [spaces] [sign] digits [. digits] [spaces] with at least one digit; any *)
(* other text becomes absent.  (Exponent, inf/nan and hexadecimal forms,   *)
(* which pandas also reads, do not occur in the texts drawn here.)         *)
(***************************************************************************)
DotPos(s) == {i \in DOMAIN s : s[i] = "."}

ParseNumeric(s) ==
    LET t    == Strip(s)
        sgn  == t # <<>> /\ Head(t) \in {"+", "-"}
        neg  == t # <<>> /\ Head(t) = "-"
        body == IF sgn THEN Tail(t) ELSE t
        dots == DotPos(body)
        dot  == IF dots = {} THEN Len(body) + 1 ELSE CHOOSE i \in dots : TRUE
        ipS  == SubSeq(body, 1, dot - 1)
        frS  == SubSeq(body, dot + 1, Len(body))
        ok   == /\ Cardinality(dots) <= 1
                /\ AllDigits(ipS) /\ AllDigits(frS)
                /\ Len(ipS) + Len(frS) > 0
        fr   == StripTrailingZeros([i \in DOMAIN frS |-> DigitVal[frS[i]]])
    IN  IF ~ok THEN NA
        ELSE IF dots = {} THEN Cell("int", neg /\ DigitsToNat(ipS) # 0, DigitsToNat(ipS), <<>>, <<>>, FALSE)
        ELSE FloatC(neg, DigitsToNat(ipS), fr)

ToNumeric(c) ==
    CASE c.k = "str"  -> ParseNumeric(c.s)
      [] c.k = "bool" -> IntC(IF c.b THEN 1 ELSE 0)
      [] OTHER        -> c

\* .astype("Int64") raises TypeError on a float that is not a whole number
CastRaises(c) == c.k = "float" /\ ~IsIntegral(c)

AsInt64(c) ==
    IF c.k = "float" THEN Cell("int", c.neg /\ c.ip # 0, c.ip, <<>>, <<>>, FALSE) ELSE c

\* .astype("string"): the text of a cell; absent stays absent
AsString(c) ==
    CASE c.k = "na"    -> NA
      [] c.k = "str"   -> c
      [] c.k = "bool"  -> StrC(IF c.b THEN <<"T", "r", "u", "e">> ELSE <<"F", "a", "l", "s", "e">>)
      [] c.k = "int"   -> StrC((IF c.neg THEN <<"-">> ELSE <<>>) \o NatToDigits(c.ip))
      [] c.k = "float" ->
            StrC((IF c.neg THEN <<"-">> ELSE <<>>) \o NatToDigits(c.ip) \o <<".">> \o
                 (IF c.fr = <<>> THEN <<"0">> ELSE [i \in DOMAIN c.fr |-> DigitChar[c.fr[i] + 1]]))

StrStrip(c) == IF c.k = "str" THEN StrC(Strip(c.s)) ELSE c

StrLower(c) == IF c.k = "str" THEN StrC(Lower(c.s)) ELSE c


(***************************************************************************)
(* DataFrames: a set of column names and a sequence of rows, each row a    *)
(* function from the column names to cells.                                *)
(***************************************************************************)
DataFrame(cols, rows) == [cols |-> cols, rows |-> rows]

RECURSIVE SelectIdx(_, _, _)
SelectIdx(rows, keep, i) ==
    IF i > Len(rows) THEN <<>>
    ELSE (IF i \in keep THEN <<rows[i]>> ELSE <<>>) \o SelectIdx(rows, keep, i + 1)

\* equality of two raw cells as drop_duplicates sees it: absent equals
\* absent, numbers compare by value, texts by their characters
RawEq(a, b) ==
    \/ IsNA(a) /\ IsNA(b)
    \/ IsNum(a) /\ IsNum(b) /\ a.ip = b.ip /\ a.fr = b.fr /\ (a.neg = b.neg \/ IsZero(a))
    \/ a.k = "str" /\ b.k = "str" /\ a.s = b.s
    \/ a.k = "bool" /\ b.k = "bool" /\ a.b = b.b

\* df.drop_duplicates(subset=[col]): the first row of every group of equal
\* raw values is kept, in the order read
DropDuplicates(df, col) ==
    LET r    == df.rows
        keep == {i \in DOMAIN r : \A j \in 1..(i - 1) : ~RawEq(r[j][col], r[i][col])}
    IN  DataFrame(df.cols, SelectIdx(r, keep, 1))

\* df.dropna(subset=cols)
DropNa(df, cols) ==
    LET r    == df.rows
        keep == {i \in DOMAIN r : \A c \in cols : ~IsNA(r[i][c])}
    IN  DataFrame(df.cols, SelectIdx(r, keep, 1))

\* df[col] = f(df[col]), cell by cell
MapCol(df, col, f(_)) ==
    DataFrame(df.cols, [i \in DOMAIN df.rows |-> [df.rows[i] EXCEPT ![col] = f(@)]])

\* the same, only when the column is there ("if col in df.columns")
MapColIf(df, col, f(_)) == IF col \in df.cols THEN MapCol(df, col, f) ELSE df

ColRaises(df, col) ==
    col \in df.cols /\ \E i \in DOMAIN df.rows : CastRaises(ToNumeric(df.rows[i][col]))

\* pd.read_csv gives every column one dtype: int64 (no cell absent), float64
\* (numbers and absent cells), bool, or object.  An object column holds
\* bools and absent cells, or texts and absent cells; its texts are not all
\* numbers and not all true/false words, or the column would have been
\* read as numbers or as bools
BoolWords ==
    {<<"T", "r", "u", "e">>, <<"T", "R", "U", "E">>, <<"t", "r", "u", "e">>,
     <<"F", "a", "l", "s", "e">>, <<"F", "A", "L", "S", "E">>, <<"f", "a", "l", "s", "e">>}

ReadCsvColumn(df, col) ==
    LET cells == {df.rows[i][col] : i \in DOMAIN df.rows}
        kinds == {c.k : c \in cells}
        texts == {c \in cells : c.k = "str"}
    IN  \/ kinds \subseteq {"int"}
        \/ kinds \subseteq {"float", "na"}
        \/ kinds \subseteq {"bool", "na"}
        \/ /\ kinds \subseteq {"str", "na"}
           /\ \E c \in texts : IsNA(ParseNumeric(c.s))
           /\ \E c \in texts : c.s \notin BoolWords

ReadCsvFrame(df) == \A col \in df.cols : ReadCsvColumn(df, col)

\* pd.read_csv on the fields of one column: the empty field is a missing
\* value; the column becomes int64 when every field is an integer, float64
\* when every field is a number or missing, bools (and missing values) when
\* every field is a true/false word or missing, and else keeps its texts.  (The fields drawn have no
\* spaces around a number and none of the other missing-value markers.)
ReadCsvCells(ts) ==
    LET vals    == {i \in DOMAIN ts : ts[i] # <<>>}
        allNum  == \A i \in vals : ~IsNA(ParseNumeric(ts[i]))
        allInt  == allNum /\ vals = DOMAIN ts /\ \A i \in vals : ParseNumeric(ts[i]).k = "int"
        allBool == vals # {} /\ \A i \in vals : ts[i] \in BoolWords
    IN  [i \in DOMAIN ts |->
            IF ts[i] = <<>> THEN NA
            ELSE IF allInt THEN ParseNumeric(ts[i])
            ELSE IF allNum THEN [ParseNumeric(ts[i]) EXCEPT !.k = "float"]
            ELSE IF allBool THEN BoolC(Lower(ts[i]) = <<"t", "r", "u", "e">>)
            ELSE StrC(ts[i])]

(***************************************************************************)
(* Column rules of the cleaners.                                           *)
(***************************************************************************)
\* pd.to_numeric(..., errors="coerce").astype("Int64")
ToInt64(c) == AsInt64(ToNumeric(c))

\* .astype("string").str.strip()
TrimText(c) == StrStrip(AsString(c))

\* a negative number raised to zero instead of being made absent
NonNegativeClamped(c) == IF ~IsNA(c) /\ IsNegative(c) THEN IntC(0) ELSE c

\* price, mileage: a negative number becomes absent
NonNegative(c) == IF ~IsNA(c) /\ IsNegative(c) THEN NA ELSE c

\* engine_size, wheel_size: a number <= 0 becomes absent
Positive(c) == IF ~IsNA(c) /\ (IsNegative(c) \/ IsZero(c)) THEN NA ELSE c

\* year: outside [1950, current_year] becomes absent
YearInRange(c) ==
    IF ~IsNA(c) /\ (SignedVal(c) < 1950 \/ SignedVal(c) > current_year) THEN NA ELSE c

CleanPrice(c) == NonNegative(ToNumeric(c))

CleanYear(c) == YearInRange(ToInt64(c))

CleanMileage(c) == NonNegative(ToInt64(c))

CleanSize(c) == Positive(ToNumeric(c))

\* s.map({"true": True, "false": False, "1": True, "0": False, "yes": True, "no": False})
BoolMap(c) ==
    CASE c.k # "str" -> NA
      [] c.s \in {<<"t", "r", "u", "e">>, <<"1">>, <<"y", "e", "s">>}   -> BoolC(TRUE)
      [] c.s \in {<<"f", "a", "l", "s", "e">>, <<"0">>, <<"n", "o">>}   -> BoolC(FALSE)
      [] OTHER -> NA

\* .astype("string").str.lower().str.strip(), then the map
CleanBool(c) == BoolMap(StrStrip(StrLower(AsString(c))))

(***************************************************************************)
(* The six cleaners.  Each returns the raised error ("none" when it        *)
(* returns normally) and the cleaned DataFrame.                            *)
(***************************************************************************)
Cleaned(err, df) == [err |-> err, df |-> df]

\* the two statements every cleaner starts with
DedupAndKey(df) == MapCol(DropDuplicates(df, "listing_id"), "listing_id", ToInt64)

KeyRaises(df) == ColRaises(DropDuplicates(df, "listing_id"), "listing_id")

clean_core(df) ==
    IF KeyRaises(df) THEN Cleaned("TypeError", df)
    ELSE Cleaned("none",
            DropNa(MapCol(DedupAndKey(df), "url", TrimText), {"listing_id", "url"}))

clean_pricing(df) ==
    IF KeyRaises(df) \/ ColRaises(DropDuplicates(df, "listing_id"), "year")
                     \/ ColRaises(DropDuplicates(df, "listing_id"), "mileage")
    THEN Cleaned("TypeError", df)
    ELSE Cleaned("none",
            DropNa(MapColIf(MapColIf(MapColIf(DedupAndKey(df),
                        "price", CleanPrice), "year", CleanYear), "mileage", CleanMileage),
                   {"listing_id"}))

clean_vehicle(df) ==
    IF KeyRaises(df) THEN Cleaned("TypeError", df)
    ELSE Cleaned("none",
            DropNa(MapColIf(MapColIf(DedupAndKey(df), "make", TrimText), "model", TrimText),
                   {"listing_id"}))

clean_specs(df) ==
    IF KeyRaises(df) THEN Cleaned("TypeError", df)
    ELSE Cleaned("none",
            DropNa(MapColIf(MapColIf(MapColIf(MapColIf(MapColIf(MapColIf(MapColIf(
                        DedupAndKey(df),
                        "engine_size", CleanSize), "wheel_size", CleanSize),
                        "engine_type", TrimText), "transmission", TrimText),
                        "drive_type", TrimText), "steering_wheel", TrimText),
                        "comfort", TrimText),
                   {"listing_id"}))

clean_appearance(df) ==
    IF KeyRaises(df) THEN Cleaned("TypeError", df)
    ELSE Cleaned("none",
            DropNa(MapColIf(MapColIf(MapColIf(MapColIf(DedupAndKey(df),
                        "body_type", TrimText), "color", TrimText),
                        "interior_material", TrimText), "sunroof", CleanBool),
                   {"listing_id"}))

clean_status(df) ==
    IF KeyRaises(df) THEN Cleaned("TypeError", df)
    ELSE Cleaned("none",
            DropNa(MapColIf(MapColIf(DedupAndKey(df),
                        "cleared_customs", CleanBool), "condition", TrimText),
                   {"listing_id"}))

Tables == <<"core", "pricing", "vehicle", "specs", "appearance", "status">>

TableNames == {Tables[i] : i \in DOMAIN Tables}

Clean(t, df) ==
    CASE t = "core"       -> clean_core(df)
      [] t = "pricing"    -> clean_pricing(df)
      [] t = "vehicle"    -> clean_vehicle(df)
      [] t = "specs"      -> clean_specs(df)
      [] t = "appearance" -> clean_appearance(df)
      [] t = "status"     -> clean_status(df)

(***************************************************************************)
(* Row materializer and batch loader.                                      *)
(***************************************************************************)
\* the column lists main() hands to rows_as_tuples and insert_batches
LoadCols(t) ==
    CASE t = "core"       -> <<"listing_id", "url">>
      [] t = "pricing"    -> <<"listing_id", "price", "year", "mileage">>
      [] t = "vehicle"    -> <<"listing_id", "make", "model">>
      [] t = "specs"      -> <<"listing_id", "engine_size", "engine_type", "transmission",
                               "drive_type", "steering_wheel", "wheel_size", "comfort">>
      [] t = "appearance" -> <<"listing_id", "body_type", "color", "interior_material",
                               "sunroof">>
      [] t = "status"     -> <<"listing_id", "cleared_customs", "condition">>

\* the column lists main() hands to validate_columns
RequiredCols(t) == IF t = "core" THEN <<"listing_id", "url">> ELSE <<"listing_id">>

SeqToSet(s) == {s[i] : i \in DOMAIN s}

\* validate_columns: the required columns the table lacks
MissingCols(df, required) == {c \in SeqToSet(required) : c \notin df.cols}

None == NA

to_py(x) == IF IsNA(x) THEN None ELSE x

\* rows_as_tuples: df[cols] raises KeyError when a column is not there
rows_as_tuples(df, cols) ==
    IF ~(SeqToSet(cols) \subseteq df.cols) THEN [err |-> "KeyError", rows |-> <<>>]
    ELSE [err  |-> "none",
          rows |-> [i \in DOMAIN df.rows |-> [j \in DOMAIN cols |-> to_py(df.rows[i][cols[j]])]]]

KeysOf(rows) == {rows[i][1] : i \in DOMAIN rows}

\* a plain INSERT into a table without the unique key: every tuple is appended
InsertAppend(existing, batch) == existing \o batch

\* INSERT ... ON CONFLICT (listing_id) DO UPDATE: a tuple whose key the table
\* already holds replaces the row of that key
RECURSIVE InsertOnConflictDoUpdate(_, _)
InsertOnConflictDoUpdate(existing, batch) ==
    IF batch = <<>> THEN existing
    ELSE InsertOnConflictDoUpdate(
            IF Head(batch)[1] \in KeysOf(existing)
            THEN [i \in DOMAIN existing |->
                    IF existing[i][1] = Head(batch)[1] THEN Head(batch) ELSE existing[i]]
            ELSE Append(existing, Head(batch)),
            Tail(batch))

\* INSERT ... VALUES %s ON CONFLICT DO NOTHING on a table whose listing_id is
\* unique: a tuple whose key the table already holds (from an earlier
\* statement or earlier in this one) is skipped, the others are appended
RECURSIVE InsertOnConflictDoNothing(_, _)
InsertOnConflictDoNothing(existing, batch) ==
    IF batch = <<>> THEN existing
    ELSE InsertOnConflictDoNothing(
            IF Head(batch)[1] \in KeysOf(existing) THEN existing
            ELSE Append(existing, Head(batch)),
            Tail(batch))

Min(a, b) == IF a < b THEN a ELSE b

\* rows[start : BATCH_SIZE]: the end of the slice not moved with its start
BatchFixedEnd(rows, start) == SubSeq(rows, start + 1, Min(BATCH_SIZE, Len(rows)))

\* rows[start : start + BATCH_SIZE]
Batch(rows, start) == SubSeq(rows, start + 1, Min(start + BATCH_SIZE, Len(rows)))

(***************************************************************************)
(* Source data of a pipeline run: for every table, whether its CSV path    *)
(* exists and the DataFrame read_csv returns for it.                       *)
(***************************************************************************)
DefaultCell(col) ==
    CASE col = "url"             -> StrC(<<"h", "/", "a">>)
      [] col = "price"           -> IntC(5)
      [] col = "year"            -> IntC(2020)
      [] col = "mileage"         -> IntC(10)
      [] col = "engine_size"     -> FloatC(FALSE, 1, <<5>>)
      [] col = "wheel_size"      -> IntC(17)
      [] col = "sunroof"         -> StrC(<<"Y", "e", "s">>)
      [] col = "cleared_customs" -> StrC(<<"n", "o">>)
      [] OTHER                   -> StrC(<<"a", " ">>)

Row(t, key) ==
    [c \in SeqToSet(LoadCols(t)) |-> IF c = "listing_id" THEN key ELSE DefaultCell(c)]

RowWith(t, key, col, v) == [Row(t, key) EXCEPT ![col] = v]

Source(exists, df) == [exists |-> exists, df |-> df]

\* n rows with the keys 1..n
ValidTable(t, n) ==
    Source(TRUE, DataFrame(SeqToSet(LoadCols(t)), [i \in 1..n |-> Row(t, IntC(i))]))

\* the table without column col
WithoutCol(t, col) ==
    LET cols == SeqToSet(LoadCols(t)) \ {col}
    IN  Source(TRUE, DataFrame(cols, <<[c \in cols |-> Row(t, IntC(1))[c]]>>))

\* a column main() loads but validate_columns does not ask for
UncheckedCol(t) == IF t = "pricing" THEN "price" ELSE LoadCols(t)[Len(LoadCols(t))]

SourceOptions(t) ==
    {ValidTable(t, n) : n \in 0..MaxRows}
    \cup {Source(FALSE, DataFrame({}, <<>>))}
    \cup {WithoutCol(t, "listing_id")}
    \cup {WithoutCol(t, UncheckedCol(t))}
    \* a key that is not a whole number
    \cup {Source(TRUE, DataFrame(SeqToSet(LoadCols(t)),
                                 <<Row(t, FloatC(FALSE, 2, <<>>)), Row(t, FloatC(FALSE, 1, <<5>>))>>))}
    \* two keys that differ as read and are the same integer
    \cup {Source(TRUE, DataFrame(SeqToSet(LoadCols(t)),
                                 <<Row(t, StrC(<<"1">>)), Row(t, StrC(<<"1", ".", "0">>)),
                                   Row(t, StrC(<<"x">>))>>))}

\* every table holds the keys 1..n, but for one table, which is any of its options
Sources ==
    UNION {{[u \in TableNames |-> IF u = x[2] THEN o ELSE ValidTable(u, x[1])] :
                o \in SourceOptions(x[2])} : x \in (1..MaxRows) \X TableNames}

\* the destination before the first run: empty, or holding a row of key 1
\* in every table, written by someone else
OldTuple(t) == [j \in DOMAIN LoadCols(t) |-> IF j = 1 THEN IntC(1) ELSE StrC(<<"o", "l", "d">>)]

EmptyDb == [t \in TableNames |-> <<>>]

Destinations == {EmptyDb, [t \in TableNames |-> <<OldTuple(t)>>]}

(***************************************************************************)
(* State.                                                                  *)
(***************************************************************************)
VARIABLES
    src,        \* the six CSV files, the same for every run
    db,         \* committed rows of the destination, per table
    run,        \* number of the current run of main()
    pc,         \* where main() is: read, validate, clean, connect, load,
                \* commit, except, finally, done
    idx,        \* position in the table list of the current stage
    start,      \* insert_batches: offset of the next chunk
    dfs,        \* the DataFrames main() holds (core, pricing, ...)
    conn,       \* the local conn: none, open, closed
    txn,        \* rows as the open transaction sees them, per table
    pending,    \* the exception being handled in main()
    raised,     \* the exception that left main()
    hist,       \* calls made on the database in this run, in order
    loaderLog,  \* log entries written by insert_batches in this run
    origErr,    \* the first exception raised in this run
    dbStart,    \* db when this run started
    commits,    \* runs that have committed so far
    tname,      \* SpecClean: the cleaner under study
    rawDf,      \* SpecClean: its raw input
    out,        \* SpecClean: what it returned
    cstage,     \* SpecClean: raw, cleaned
    csvCol      \* SpecClean: the boolean column as written in the CSV file,
                \* when the raw table was read from one

pipeVars ==
    <<src, db, run, pc, idx, start, dfs, conn, txn, pending, raised, hist, loaderLog,
      origErr, dbStart, commits>>

cleanVars == <<tname, rawDf, out, cstage, csvCol>>

vars == <<pipeVars, cleanVars>>

Err(type, table, at) == [type |-> type, table |-> table, at |-> at]

NoErr == Err("none", "", 0)

Ev(op, table, at, ok) == [op |-> op, table |-> table, at |-> at, ok |-> ok]

LogEntry(level, table, from, to) == [level |-> level, table |-> table, from |-> from, to |-> to]

NoDfs == [t \in TableNames |-> DataFrame({}, <<>>)]

NoOut == Cleaned("none", DataFrame({}, <<>>))

\* a run of main() begins: nothing read, no connection
RunStart ==
    /\ pc = "read" /\ idx = 1 /\ start = 0
    /\ dfs = NoDfs
    /\ conn = "none"
    /\ pending = NoErr /\ raised = NoErr /\ origErr = NoErr
    /\ hist = <<>> /\ loaderLog = <<>>

Init ==
    /\ src \in {s \in Sources : \A t \in TableNames : ReadCsvFrame(s[t].df)}
    /\ db \in Destinations
    /\ run = 1
    /\ RunStart
    /\ txn = db
    /\ dbStart = db
    /\ commits = 0
    /\ tname = "core" /\ rawDf = DataFrame({}, <<>>) /\ out = NoOut /\ cstage = "idle"
    /\ csvCol = <<>>

(***************************************************************************)
(* main(): the stages before the transaction.                              *)
(***************************************************************************)
\* every statement commits on its own
AutocommitOn == TRUE

\* conn.autocommit = False
Autocommit == FALSE

\* a child table loaded before its parent
LoadOrderChildFirst == <<"pricing", "core", "vehicle", "specs", "appearance", "status">>

\* the order of the insert_batches calls
LoadOrder == <<"core", "pricing", "vehicle", "specs", "appearance", "status">>

\* the connection opened before the tables are cleaned
StageAfterConnectFirst(stage) ==
    CASE stage = "read"     -> "validate"
      [] stage = "validate" -> "connect"
      [] stage = "connect"  -> "clean"
      [] stage = "clean"    -> "load"
      [] stage = "load"     -> "commit"

\* the order of main()'s stages
StageAfter(stage) ==
    CASE stage = "read"     -> "validate"
      [] stage = "validate" -> "clean"
      [] stage = "clean"    -> "connect"
      [] stage = "connect"  -> "load"
      [] stage = "load"     -> "commit"

\* the next table of the stage, or the next stage
Advance ==
    IF idx < Len(Tables) THEN idx' = idx + 1 /\ pc' = pc
    ELSE idx' = 1 /\ pc' = StageAfter(pc)

\* an exception outside the try block leaves main() at once
Propagate(e) ==
    /\ raised' = e
    /\ origErr' = e
    /\ pc' = "done"

ReadCsv ==
    /\ pc = "read"
    /\ src[Tables[idx]].exists
    /\ dfs' = [dfs EXCEPT ![Tables[idx]] = src[Tables[idx]].df]
    /\ Advance
    /\ UNCHANGED <<src, db, run, start, conn, txn, pending, raised, hist, loaderLog,
                   origErr, dbStart, commits, cleanVars>>

ReadCsvNotFound ==
    /\ pc = "read"
    /\ ~src[Tables[idx]].exists
    /\ Propagate(Err("FileNotFoundError", Tables[idx], 0))
    /\ UNCHANGED <<src, db, run, idx, start, dfs, conn, txn, pending, hist, loaderLog,
                   dbStart, commits, cleanVars>>

ValidateColumns ==
    /\ pc = "validate"
    /\ MissingCols(dfs[Tables[idx]], RequiredCols(Tables[idx])) = {}
    /\ Advance
    /\ UNCHANGED <<src, db, run, start, dfs, conn, txn, pending, raised, hist, loaderLog,
                   origErr, dbStart, commits, cleanVars>>

ValidateColumnsMissing ==
    /\ pc = "validate"
    /\ MissingCols(dfs[Tables[idx]], RequiredCols(Tables[idx])) # {}
    /\ Propagate(Err("ValueError", Tables[idx], 0))
    /\ UNCHANGED <<src, db, run, idx, start, dfs, conn, txn, pending, hist, loaderLog,
                   dbStart, commits, cleanVars>>

CleanTable ==
    /\ pc = "clean"
    /\ Clean(Tables[idx], dfs[Tables[idx]]).err = "none"
    /\ dfs' = [dfs EXCEPT ![Tables[idx]] = Clean(Tables[idx], @).df]
    /\ Advance
    /\ UNCHANGED <<src, db, run, start, conn, txn, pending, raised, hist, loaderLog,
                   origErr, dbStart, commits, cleanVars>>

CleanTableRaises ==
    /\ pc = "clean"
    /\ Clean(Tables[idx], dfs[Tables[idx]]).err # "none"
    /\ Propagate(Err(Clean(Tables[idx], dfs[Tables[idx]]).err, Tables[idx], 0))
    /\ UNCHANGED <<src, db, run, idx, start, dfs, conn, txn, pending, hist, loaderLog,
                   dbStart, commits, cleanVars>>

(***************************************************************************)
(* main(): the try block.  One connection, one transaction.                *)
(***************************************************************************)
\* an except block that handles the exception and does not re-raise it
CatchAndSwallow(e) ==
    /\ pending' = NoErr
    /\ origErr' = e
    /\ pc' = "except"

\* an exception inside the try block is caught by "except Exception as e"
Catch(e) ==
    /\ pending' = e
    /\ origErr' = e
    /\ pc' = "except"

\* get_conn() returns; conn.autocommit = False starts the transaction
GetConn ==
    /\ pc = "connect"
    /\ conn' = "open"
    /\ txn' = db
    /\ hist' = Append(hist, Ev("connect", "", 0, TRUE))
    /\ pc' = StageAfter("connect") /\ idx' = 1 /\ start' = 0
    /\ UNCHANGED <<src, db, run, dfs, pending, raised, loaderLog, origErr, dbStart,
                   commits, cleanVars>>

\* get_conn() raises: an env var is missing, or psycopg2.connect fails
GetConnFails ==
    /\ pc = "connect"
    /\ Catch(Err("ConnectError", "", 0))
    /\ UNCHANGED <<src, db, run, idx, start, dfs, conn, txn, raised, hist, loaderLog,
                   dbStart, commits, cleanVars>>

\* the table being loaded and its tuples
LoadTable == LoadOrder[idx]

Materialized == rows_as_tuples(dfs[LoadTable], LoadCols(LoadTable))

\* a commit after the first table that is loaded
NextLoadCommits == idx' = idx /\ start' = 0 /\ pc' = "commit"

\* insert_batches has returned: the next call, or the end of the with block
NextLoad ==
    IF idx < Len(LoadOrder) THEN idx' = idx + 1 /\ start' = 0 /\ pc' = pc
    ELSE idx' = 1 /\ start' = 0 /\ pc' = StageAfter("load")

\* rows_as_tuples raises KeyError: the DataFrame lacks a column to load
RowsAsTuplesRaises ==
    /\ pc = "load"
    /\ Materialized.err # "none"
    /\ Catch(Err(Materialized.err, LoadTable, 0))
    /\ UNCHANGED <<src, db, run, idx, start, dfs, conn, txn, raised, hist, loaderLog,
                   dbStart, commits, cleanVars>>

\* no rows treated as a failure of the load
InsertNoRowsRaises ==
    /\ pc = "load"
    /\ Materialized.err = "none"
    /\ Materialized.rows = <<>>
    /\ Catch(Err("LoadFailure", LoadTable, 0))
    /\ UNCHANGED <<src, db, run, idx, start, dfs, conn, txn, raised, hist, loaderLog,
                   dbStart, commits, cleanVars>>

\* insert_batches with no rows: a warning, no statement
InsertNoRows ==
    /\ pc = "load"
    /\ Materialized.err = "none"
    /\ Materialized.rows = <<>>
    /\ loaderLog' = Append(loaderLog, LogEntry("WARNING", LoadTable, 0, 0))
    /\ NextLoad
    /\ UNCHANGED <<src, db, run, dfs, conn, txn, pending, raised, hist, origErr, dbStart,
                   commits, cleanVars>>

\* one pass of the for loop of insert_batches: execute_values on a chunk,
\* then the progress log entry
InsertBatch ==
    /\ pc = "load"
    /\ Materialized.err = "none"
    /\ start < Len(Materialized.rows)
    /\ txn' = [txn EXCEPT ![LoadTable] =
                    InsertOnConflictDoNothing(@, Batch(Materialized.rows, start))]
    /\ db' = IF Autocommit THEN txn' ELSE db
    /\ hist' = Append(hist, Ev("insert", LoadTable, start, TRUE))
    /\ loaderLog' = Append(loaderLog,
                        LogEntry("INFO", LoadTable, start,
                                 Min(start + BATCH_SIZE, Len(Materialized.rows))))
    /\ IF start + BATCH_SIZE < Len(Materialized.rows)
       THEN start' = start + BATCH_SIZE /\ UNCHANGED <<idx, pc>>
       ELSE NextLoad
    /\ UNCHANGED <<src, run, dfs, conn, pending, raised, origErr, dbStart, commits,
                   cleanVars>>

\* execute_values raises (a constraint violation, a type mismatch, a lost
\* connection): the statement inserts nothing
InsertBatchFails ==
    /\ pc = "load"
    /\ Materialized.err = "none"
    /\ start < Len(Materialized.rows)
    /\ hist' = Append(hist, Ev("insert", LoadTable, start, FALSE))
    /\ Catch(Err("LoadFailure", LoadTable, start))
    /\ UNCHANGED <<src, db, run, idx, start, dfs, conn, txn, raised, loaderLog, dbStart,
                   commits, cleanVars>>

\* conn.commit() returns: the rows of the transaction are committed
Commit ==
    /\ pc = "commit"
    /\ db' = txn
    /\ commits' = commits + 1
    /\ hist' = Append(hist, Ev("commit", "", 0, TRUE))
    /\ pc' = "finally"
    /\ UNCHANGED <<src, run, idx, start, dfs, conn, txn, pending, raised, loaderLog,
                   origErr, dbStart, cleanVars>>

\* a failed commit that is not raised to main()'s handler
CommitFailsSwallowed ==
    /\ pc = "commit"
    /\ hist' = Append(hist, Ev("commit", "", 0, FALSE))
    /\ pc' = "finally"
    /\ UNCHANGED <<src, db, run, idx, start, dfs, conn, txn, pending, raised, loaderLog,
                   origErr, dbStart, commits, cleanVars>>

\* conn.commit() raises: nothing is committed
CommitFails ==
    /\ pc = "commit"
    /\ hist' = Append(hist, Ev("commit", "", 0, FALSE))
    /\ Catch(Err("CommitError", "", 0))
    /\ UNCHANGED <<src, db, run, idx, start, dfs, conn, txn, raised, loaderLog, dbStart,
                   commits, cleanVars>>

(***************************************************************************)
(* main(): the except and finally blocks.                                  *)
(***************************************************************************)
\* the rollback error replaces the handled exception
OnRollbackErrorMasks(handled, e) == e

\* the connection closed on the success path only
ShouldCloseOnSuccess(c, handled) == c # "none" /\ handled = NoErr

\* "except Exception: pass" around conn.rollback(): the handled exception
\* stays the one to re-raise
OnRollbackError(handled, e) == handled

\* "if conn is not None" of the finally block
ShouldClose(c, handled) == c # "none"

\* a rollback attempted without a connection
ExceptNoConnRollsBack ==
    /\ pc = "except"
    /\ conn = "none"
    /\ hist' = Append(hist, Ev("rollback", "", 0, FALSE))
    /\ pc' = "finally"
    /\ UNCHANGED <<src, db, run, idx, start, dfs, conn, txn, pending, raised, loaderLog,
                   origErr, dbStart, commits, cleanVars>>

\* conn is None: get_conn() raised, there is nothing to roll back
ExceptNoConn ==
    /\ pc = "except"
    /\ conn = "none"
    /\ pc' = "finally"
    /\ UNCHANGED <<src, db, run, idx, start, dfs, conn, txn, pending, raised, hist,
                   loaderLog, origErr, dbStart, commits, cleanVars>>

\* conn.rollback() returns: the rows of the transaction are discarded
Rollback ==
    /\ pc = "except"
    /\ conn # "none"
    /\ txn' = db
    /\ hist' = Append(hist, Ev("rollback", "", 0, TRUE))
    /\ pc' = "finally"
    /\ UNCHANGED <<src, db, run, idx, start, dfs, conn, pending, raised, loaderLog,
                   origErr, dbStart, commits, cleanVars>>

\* conn.rollback() raises; the error is swallowed
RollbackFails ==
    /\ pc = "except"
    /\ conn # "none"
    /\ hist' = Append(hist, Ev("rollback", "", 0, FALSE))
    /\ pending' = OnRollbackError(pending, Err("RollbackError", "", 0))
    /\ pc' = "finally"
    /\ UNCHANGED <<src, db, run, idx, start, dfs, conn, txn, raised, loaderLog, origErr,
                   dbStart, commits, cleanVars>>

\* finally: conn.close(), whose own error is swallowed; a transaction that
\* was neither committed nor rolled back ends with the connection.  Then
\* main() returns, or the handled exception is re-raised
Close ==
    /\ pc = "finally"
    /\ ShouldClose(conn, pending)
    /\ \E ok \in BOOLEAN : hist' = Append(hist, Ev("close", "", 0, ok))
    /\ conn' = "closed"
    /\ txn' = db
    /\ raised' = pending
    /\ pc' = "done"
    /\ UNCHANGED <<src, db, run, idx, start, dfs, pending, loaderLog, origErr, dbStart,
                   commits, cleanVars>>

FinallyNoClose ==
    /\ pc = "finally"
    /\ ~ShouldClose(conn, pending)
    /\ raised' = pending
    /\ pc' = "done"
    /\ UNCHANGED <<src, db, run, idx, start, dfs, conn, txn, pending, hist, loaderLog,
                   origErr, dbStart, commits, cleanVars>>

\* the pipeline is run again on the same source data
NextRun ==
    /\ pc = "done"
    /\ run < MaxRuns
    /\ run' = run + 1
    /\ pc' = "read" /\ idx' = 1 /\ start' = 0
    /\ dfs' = NoDfs
    /\ conn' = "none"
    /\ pending' = NoErr /\ raised' = NoErr /\ origErr' = NoErr
    /\ hist' = <<>> /\ loaderLog' = <<>>
    /\ txn' = db
    /\ dbStart' = db
    /\ UNCHANGED <<src, db, commits, cleanVars>>

Next ==
    \/ ReadCsv \/ ReadCsvNotFound
    \/ ValidateColumns \/ ValidateColumnsMissing
    \/ CleanTable \/ CleanTableRaises
    \/ GetConn \/ GetConnFails
    \/ RowsAsTuplesRaises \/ InsertNoRows \/ InsertBatch \/ InsertBatchFails
    \/ Commit \/ CommitFails
    \/ ExceptNoConn \/ Rollback \/ RollbackFails
    \/ Close \/ FinallyNoClose
    \/ NextRun

Spec == Init /\ [][Next]_vars

(***************************************************************************)
(* SpecClean: every cleaner applied once to a raw table as read_csv can    *)
(* return it: at most MaxKeyRows rows whose keys vary, or at most          *)
(* MaxColRows rows with the keys 1..n whose other cells vary.              *)
(***************************************************************************)
KeyCells ==
    {NA, IntC(1), IntC(2), FloatC(FALSE, 1, <<>>), FloatC(FALSE, 1, <<5>>),
     StrC(<<"1">>), StrC(<<"1", ".", "0">>), StrC(<<" ", "2">>), StrC(<<"x">>)}

TextCells == {NA, StrC(<<"a", " ">>), StrC(<<" ">>), IntC(500)}

BoolCells ==
    {NA, StrC(<<"Y", "e", "s">>), StrC(<<"0">>), StrC(<<"T", "R", "U", "E">>),
     StrC(<<"m", "a", "y", "b", "e">>), StrC(<<" ", "n", "o", " ">>),
     StrC(<<"f", "a", "l", "s", "e">>), StrC(<<"1">>), StrC(<<"N", "O">>),
     BoolC(TRUE), BoolC(FALSE), IntC(1), IntC(0), FloatC(FALSE, 0, <<>>)}

ColCells(col) ==
    CASE col = "url"     -> {NA, StrC(<<"h", "/", "a">>), StrC(<<" ", "h", "/", "a", " ">>),
                             StrC(<<" ", " ">>)}
      [] col = "price"   -> {NA, IntC(5), IntC(-5), IntC(0), FloatC(FALSE, 9, <<5>>),
                             FloatC(TRUE, 0, <<5>>), StrC(<<"x">>), StrC(<<"-", "5">>)}
      [] col = "year"    -> {NA, IntC(1899), IntC(1949), IntC(1950), IntC(2020),
                             IntC(current_year), IntC(current_year + 1), IntC(2999),
                             FloatC(FALSE, 2020, <<>>), FloatC(FALSE, 2020, <<5>>),
                             StrC(<<"x">>)}
      [] col = "mileage" -> {NA, IntC(-1), IntC(0), IntC(10), FloatC(FALSE, 1, <<5>>),
                             StrC(<<"x">>)}
      [] col \in {"engine_size", "wheel_size"} ->
                            {NA, IntC(0), IntC(17), IntC(-2), FloatC(FALSE, 1, <<5>>),
                             FloatC(FALSE, 0, <<>>), StrC(<<"x">>)}
      [] col \in {"sunroof", "cleared_customs"} -> BoolCells
      [] OTHER           -> TextCells

OtherCols(t) == SeqToSet(LoadCols(t)) \ {"listing_id"}

\* the columns validate_columns has checked, and nothing else
NarrowRow(t, k) == [c \in SeqToSet(RequiredCols(t)) |-> Row(t, k)[c]]

\* tables whose keys vary, with every column or with the validated ones only
KeyInputs(t) ==
    {DataFrame(SeqToSet(LoadCols(t)), [i \in DOMAIN ks |-> Row(t, ks[i])]) :
        ks \in UNION {[1..n -> KeyCells] : n \in 0..MaxKeyRows}}
    \cup {DataFrame(SeqToSet(RequiredCols(t)), [i \in DOMAIN ks |-> NarrowRow(t, ks[i])]) :
            ks \in UNION {[1..n -> KeyCells] : n \in 0..MaxKeyRows}}

\* tables with the keys 1..n in which every row has one cell of its own
ColChoices(t) == UNION {{<<col, v>> : v \in ColCells(col)} : col \in OtherCols(t)}

ColInputs(t) ==
    {DataFrame(SeqToSet(LoadCols(t)),
               [i \in DOMAIN cs |-> RowWith(t, IntC(i), cs[i][1], cs[i][2])]) :
        cs \in UNION {[1..n -> ColChoices(t)] : n \in 1..MaxColRows}}

CleanInputs(t) == {df \in KeyInputs(t) \cup ColInputs(t) : ReadCsvFrame(df)}

\* the column a cleaner maps to booleans
BoolCol(t) == IF t = "appearance" THEN "sunroof" ELSE "cleared_customs"

\* fields of a boolean column of a CSV file; the empty field is a missing value
BoolTexts ==
    {<<>>, <<"Y", "e", "s">>, <<"0">>, <<"1">>, <<"T", "R", "U", "E">>,
     <<"T", "r", "u", "e">>, <<"f", "a", "l", "s", "e">>, <<"m", "a", "y", "b", "e">>,
     <<" ", "n", "o", " ">>}

BoolCsvColumns == UNION {[1..n -> BoolTexts] : n \in 1..MaxColRows}

\* the table read from a CSV file with the keys 1..n and the boolean column ts
CsvFrame(t, ts) ==
    DataFrame(SeqToSet(LoadCols(t)),
              [i \in DOMAIN ts |-> RowWith(t, IntC(i), BoolCol(t), ReadCsvCells(ts)[i])])

InitClean ==
    /\ tname \in TableNames
    /\ \/ rawDf \in CleanInputs(tname) /\ csvCol = <<>>
       \/ /\ tname \in {"appearance", "status"}
          /\ csvCol \in BoolCsvColumns
          /\ rawDf = CsvFrame(tname, csvCol)
    /\ out = NoOut
    /\ cstage = "raw"
    /\ src = [t \in TableNames |-> ValidTable(t, 0)]
    /\ db = EmptyDb /\ txn = EmptyDb /\ dbStart = EmptyDb
    /\ run = 1 /\ commits = 0
    /\ pc = "idle" /\ idx = 1 /\ start = 0
    /\ dfs = NoDfs
    /\ conn = "none"
    /\ pending = NoErr /\ raised = NoErr /\ origErr = NoErr
    /\ hist = <<>> /\ loaderLog = <<>>

Returns(result) ==
    /\ out' = result
    /\ cstage' = "cleaned"
    /\ UNCHANGED <<tname, rawDf, csvCol, pipeVars>>

CleanCore ==
    /\ cstage = "raw" /\ tname = "core"
    /\ Returns(clean_core(rawDf))

CleanPricing ==
    /\ cstage = "raw" /\ tname = "pricing"
    /\ Returns(clean_pricing(rawDf))

CleanVehicle ==
    /\ cstage = "raw" /\ tname = "vehicle"
    /\ Returns(clean_vehicle(rawDf))

CleanSpecs ==
    /\ cstage = "raw" /\ tname = "specs"
    /\ Returns(clean_specs(rawDf))

CleanAppearance ==
    /\ cstage = "raw" /\ tname = "appearance"
    /\ Returns(clean_appearance(rawDf))

CleanStatus ==
    /\ cstage = "raw" /\ tname = "status"
    /\ Returns(clean_status(rawDf))

NextClean ==
    \/ CleanCore \/ CleanPricing \/ CleanVehicle
    \/ CleanSpecs \/ CleanAppearance \/ CleanStatus

SpecClean == InitClean /\ [][NextClean]_vars

(***************************************************************************)
(* Properties of main() (Spec).                                            *)
(***************************************************************************)
Done == pc = "done"

Ops(op) == {i \in DOMAIN hist : hist[i].op = op}

OkOps(op) == {i \in DOMAIN hist : hist[i].op = op /\ hist[i].ok}

FailedOps(op) == {i \in DOMAIN hist : hist[i].op = op /\ ~hist[i].ok}

\* the tuples main() hands to insert_batches for table t
TuplesOf(t) == rows_as_tuples(dfs[t], LoadCols(t))

\* number of insert statements a table of n rows takes
Chunks(n) == (n + BATCH_SIZE - 1) \div BATCH_SIZE

\* the destination with every tuple of this run's six tables loaded, each
\* table in one piece
AllLoaded ==
    [t \in TableNames |-> InsertOnConflictDoNothing(dbStart[t], TuplesOf(t).rows)]

\* an exception raised between the opening of the connection and the end
\* of the commit
TransactingErrors == {"KeyError", "LoadFailure", "CommitError"}

\* an exception raised while reading, validating or cleaning
PreflightErrors == {"FileNotFoundError", "ValueError", "TypeError"}

\* C1: all or nothing.  At every point of a run the destination holds what
\* it held when the run started, or (only once the commit has returned)
\* that plus every row of all six tables this run inserted; a failure of
\* any chunk insert or of the commit leaves it as it was.
C1_AllOrNothing ==
    /\ \/ db = dbStart
       \/ /\ pc \in {"finally", "done"}
          /\ pending = NoErr
          /\ \A t \in TableNames : TuplesOf(t).err = "none"
          /\ db = AllLoaded
    /\ origErr # NoErr => db = dbStart

\* C1 witness: Specs fails on its second chunk after the earlier tables and
\* its first chunk were inserted, the rollback fails too, and the run ends
\* with an empty destination.
C1_Witness ==
    /\ Done
    /\ origErr = Err("LoadFailure", "specs", BATCH_SIZE)
    /\ Cardinality(OkOps("insert")) >= 4
    /\ FailedOps("rollback") # {}
    /\ db = EmptyDb

\* C2: an exception raised once the connection is open is followed by a
\* rollback attempt, and the exception that leaves main() is that original
\* exception, also when the rollback itself fails.
C2_OriginalErrorSurfaces ==
    /\ (pc \in {"finally", "done"} /\ origErr.type \in TransactingErrors) =>
            /\ Ops("rollback") # {}
            /\ pending = origErr
    /\ (Done /\ origErr # NoErr) => raised = origErr

\* C2 witness: a chunk insert failed, the rollback failed, and main() raised
\* the load failure.
C2_Witness ==
    /\ Done
    /\ origErr.type = "LoadFailure"
    /\ FailedOps("rollback") # {}
    /\ raised = origErr

TableIdx(t) == CHOOSE i \in DOMAIN Tables : Tables[i] = t

\* C3: insert statements run in the order Core, Pricing, Vehicle, Specs,
\* Appearance, Status; when a statement of a table runs, every chunk of
\* every earlier table has been inserted; and while a child table is being
\* loaded the transaction holds every key of the cleaned Core table.
C3_LoadOrder ==
    /\ \A i, j \in Ops("insert") :
            i < j => TableIdx(hist[i].table) <= TableIdx(hist[j].table)
    /\ \A j \in Ops("insert") : \A u \in TableNames :
            TableIdx(u) < TableIdx(hist[j].table) =>
                {hist[i].at : i \in {k \in OkOps("insert") : k < j /\ hist[k].table = u}}
                    = {BATCH_SIZE * (c - 1) : c \in 1..Chunks(Len(TuplesOf(u).rows))}
    /\ (pc = "load" /\ \E j \in Ops("insert") : hist[j].table # "core") =>
            KeysOf(TuplesOf("core").rows) \subseteq KeysOf(txn["core"])

\* C3 witness: Core took two chunks and the first Pricing statement has run.
C3_Witness ==
    /\ \E i \in OkOps("insert") : hist[i].table = "core" /\ hist[i].at = BATCH_SIZE
    /\ \E i \in Ops("insert") : hist[i].table = "pricing"
    /\ pc = "load"

\* C4: once a run has committed, no later run of the pipeline on the same
\* source data changes the rows of any destination table.
C4_Idempotent == [][commits >= 1 => db' = db]_vars

\* C4 witness: the second run has committed into a destination that the
\* first run filled, and has left every table as it was.
C4_Witness ==
    /\ Done /\ run = 2 /\ commits = 2
    /\ Len(db["core"]) >= 2
    /\ OkOps("insert") # {}
    /\ db = dbStart

\* a source table lacks a column that main() cleans or loads
MissingLoadCol ==
    \E t \in TableNames : src[t].exists /\ ~(SeqToSet(LoadCols(t)) \subseteq src[t].df.cols)

\* C5: when a source table lacks a column that cleaning or loading needs,
\* the run fails in validate_columns: no connection is opened, no insert
\* statement runs, and main() raises the validation error.
C5_SchemaMismatchPreflight ==
    (MissingLoadCol /\ \A t \in TableNames : src[t].exists) =>
        /\ conn = "none"
        /\ hist = <<>>
        /\ Done => raised.type = "ValueError"

\* C6: when reading, validating or cleaning fails, the error leaves main(),
\* no connection was opened, no insert, commit, rollback or close was
\* performed, and the destination is unchanged; and none of the three
\* stages runs with a connection open.
C6_PreflightFailure ==
    /\ origErr.type \in PreflightErrors =>
            /\ Done /\ raised = origErr
            /\ conn = "none" /\ hist = <<>>
            /\ db = dbStart
    /\ pc \in {"read", "validate", "clean"} => conn = "none" /\ hist = <<>>

\* C6 witness: a cleaner raised and main() ended with that error.
C6_Witness ==
    /\ Done
    /\ raised.type = "TypeError"
    /\ raised.table = "specs"

\* C7: when main() ends after a connection was opened, the connection is
\* closed, close was called once, and it was the last call made on the
\* connection.
C7_ConnectionClosed ==
    (Done /\ Ops("connect") # {}) =>
        /\ conn = "closed"
        /\ Ops("close") = {Len(hist)}

\* C7 witness: load failed, rollback failed, and the connection is closed.
C7_Witness ==
    /\ Done
    /\ FailedOps("insert") # {}
    /\ FailedOps("rollback") # {}
    /\ conn = "closed"

RECURSIVE SumChunks(_)
SumChunks(i) ==
    IF i = 0 THEN 0 ELSE SumChunks(i - 1) + Chunks(Len(TuplesOf(Tables[i]).rows))

\* number of chunks of all six tables
TotalChunks == SumChunks(Len(Tables))

\* C8: while the six tables are loaded nothing is committed or rolled back;
\* commit is called at most once in a run, after every chunk of all six
\* tables was inserted without error; and main() returns normally, or the
\* destination changes, only through that commit.
C8_LoaderNeverCommits ==
    /\ pc = "load" => (db = dbStart /\ Ops("commit") = {} /\ Ops("rollback") = {})
    /\ \A i \in Ops("insert") : \A j \in Ops("commit") \cup Ops("rollback") : i < j
    /\ Cardinality(Ops("commit")) <= 1
    /\ \A j \in Ops("commit") :
            /\ FailedOps("insert") = {}
            /\ Cardinality({i \in OkOps("insert") : i < j}) = TotalChunks
    /\ (Done /\ raised = NoErr) => Cardinality(OkOps("commit")) = 1
    /\ db # dbStart => OkOps("commit") # {}

\* C8 witness: all six tables were loaded in several chunks and the commit
\* has returned.
C8_Witness ==
    /\ Done /\ raised = NoErr
    /\ OkOps("commit") # {}
    /\ Cardinality(OkOps("insert")) > Len(Tables)

(***************************************************************************)
(* Properties of the cleaners (SpecClean).                                 *)
(***************************************************************************)
CleanedOk == cstage = "cleaned" /\ out.err = "none"

OutRows == out.df.rows

\* C9: no two rows of a cleaner's output share a listing_id, also when the
\* raw keys differ as read and coerce to the same integer.
C9_KeyUniqueness ==
    CleanedOk =>
        \A i, j \in DOMAIN OutRows :
            i # j => OutRows[i]["listing_id"] # OutRows[j]["listing_id"]

\* C10: every cleaned row has a listing_id, and every cleaned Core row has a
\* url that is neither absent nor empty: a Core row whose url is absent,
\* empty, or empty after trimming is dropped.
C10_RequiredFields ==
    CleanedOk =>
        \A i \in DOMAIN OutRows :
            /\ ~IsNA(OutRows[i]["listing_id"])
            /\ tname = "core" =>
                   /\ ~IsNA(OutRows[i]["url"])
                   /\ OutRows[i]["url"] # StrC(<<>>)

\* the raw rows a cleaner keeps: the first row of every raw key, when the
\* key is a number
ValidKeyRows ==
    {i \in DOMAIN rawDf.rows :
        /\ ~IsNA(ToNumeric(rawDf.rows[i]["listing_id"]))
        /\ \A j \in 1..(i - 1) :
                ~RawEq(rawDf.rows[j]["listing_id"], rawDf.rows[i]["listing_id"])}

\* position in the output of the raw row i
RankOf(i) == Cardinality({j \in ValidKeyRows : j <= i})

DomainCols == {"price", "year", "mileage", "engine_size", "wheel_size"}

SameNumber(a, b) ==
    /\ IsNum(a) /\ IsNum(b)
    /\ a.ip = b.ip /\ a.fr = b.fr
    /\ (a.neg = b.neg \/ (IsZero(a) /\ IsZero(b)))

\* the valid domain of a column, for a number v
InDomain(col, v) ==
    CASE col \in {"price", "mileage"}          -> ~(v.neg /\ (v.ip > 0 \/ v.fr # <<>>))
      [] col = "year"                          -> /\ v.fr = <<>>
                                                  /\ SignedVal(v) >= 1950
                                                  /\ SignedVal(v) <= current_year
      [] col \in {"engine_size", "wheel_size"} -> ~v.neg /\ (v.ip > 0 \/ v.fr # <<>>)

\* C11: in the output of clean_pricing and clean_specs every raw row with a
\* valid key is kept, and its price, mileage, year, engine_size and
\* wheel_size are absent when the raw value is no number or lies outside the
\* column's domain (price, mileage >= 0; 1950 <= year <= current_year;
\* sizes > 0), and the raw number itself, neither clamped nor replaced, when
\* it lies inside.
C11_DomainRule ==
    (CleanedOk /\ tname \in {"pricing", "specs"}) =>
        /\ Len(OutRows) = Cardinality(ValidKeyRows)
        /\ \A i \in ValidKeyRows : \A col \in DomainCols \cap rawDf.cols :
                LET o == OutRows[RankOf(i)][col]
                    v == ToNumeric(rawDf.rows[i][col])
                IN  IF IsNA(v) \/ ~InDomain(col, v) THEN IsNA(o) ELSE SameNumber(o, v)

\* C11 witness: clean_pricing was given a price of -5 and a year of 1899,
\* kept both rows and made the two cells absent, the other cells as read.
C11_Witness ==
    /\ CleanedOk /\ tname = "pricing"
    /\ Len(rawDf.rows) = 2 /\ Len(OutRows) = 2
    /\ {"price", "year"} \subseteq rawDf.cols
    /\ rawDf.rows[1]["price"] = IntC(-5) /\ IsNA(OutRows[1]["price"])
    /\ rawDf.rows[2]["year"] = IntC(1899) /\ IsNA(OutRows[2]["year"])
    /\ OutRows[1]["year"] = IntC(2020) /\ OutRows[2]["price"] = IntC(5)

TrueTexts == {<<"t", "r", "u", "e">>, <<"1">>, <<"y", "e", "s">>}

FalseTexts == {<<"f", "a", "l", "s", "e">>, <<"0">>, <<"n", "o">>}

\* C12: for a sunroof or cleared_customs column read from a CSV file, the
\* cleaned value is true exactly when the field as written, lower-cased and
\* trimmed, is "true", "1" or "yes", false exactly when it is "false", "0"
\* or "no", and absent for every other field.
C12_BooleanMapping ==
    (CleanedOk /\ csvCol # <<>>) =>
        \A i \in DOMAIN csvCol :
            LET t == Strip(Lower(csvCol[i]))
                o == OutRows[i][BoolCol(tname)]
            IN  /\ o = BoolC(TRUE)  <=> t \in TrueTexts
                /\ o = BoolC(FALSE) <=> t \in FalseTexts
                /\ IsNA(o) <=> t \notin TrueTexts \cup FalseTexts

(***************************************************************************)
(* Properties of the loader and of the end of main() (Spec).               *)
(***************************************************************************)
\* this step is an insert statement that returned
IsInsertStep ==
    /\ pc = "load"
    /\ Len(hist') = Len(hist) + 1
    /\ hist'[Len(hist')].op = "insert"
    /\ hist'[Len(hist')].ok

\* the first tuple of batch b that carries the key of b[j]
FirstOfKey(b, j) ==
    b[CHOOSE k \in DOMAIN b : b[k][1] = b[j][1] /\ \A m \in 1..(k - 1) : b[m][1] # b[j][1]]

\* C13: no step changes or removes a committed row; an insert statement
\* leaves every row the transaction already holds as it is, whatever the
\* incoming tuple of the same key carries, and adds one row for every key of
\* the chunk that the table did not hold yet, with the values of the first
\* tuple of that key.
C13_ConflictSkip ==
    [][/\ \A t \in TableNames : \A i \in DOMAIN db[t] :
                i \in DOMAIN db'[t] /\ db'[t][i] = db[t][i]
       /\ IsInsertStep =>
            LET b == Batch(Materialized.rows, start)
            IN  /\ \A u \in TableNames : \A i \in DOMAIN txn[u] :
                        i \in DOMAIN txn'[u] /\ txn'[u][i] = txn[u][i]
                /\ \A j \in DOMAIN b :
                        b[j][1] \notin KeysOf(txn[LoadTable]) =>
                            \E i \in DOMAIN txn'[LoadTable] \ DOMAIN txn[LoadTable] :
                                txn'[LoadTable][i] = FirstOfKey(b, j)
                /\ Len(txn'[LoadTable]) =
                        Len(txn[LoadTable]) + Cardinality(KeysOf(b) \ KeysOf(txn[LoadTable]))
      ]_vars

\* C13 witness: Core already held a row of key 1; the first chunk, whose
\* first tuple has key 1 and other values, was inserted without error, the
\* old row is as it was and the row of key 2 was added.
C13_Witness ==
    /\ pc = "load"
    /\ dbStart["core"] = <<OldTuple("core")>>
    /\ \E i \in OkOps("insert") : hist[i].table = "core" /\ hist[i].at = 0
    /\ TuplesOf("core").rows[1][1] = IntC(1)
    /\ TuplesOf("core").rows[1] # OldTuple("core")
    /\ txn["core"][1] = OldTuple("core")
    /\ Len(txn["core"]) = 2 /\ txn["core"][2][1] = IntC(2)

\* the insert statements issued for table t in this run, in order
InsertsOf(t) == SelectSeq(hist, LAMBDA e : e.op = "insert" /\ e.table = t)

\* the progress log entries written for table t in this run, in order
ProgressOf(t) == SelectSeq(loaderLog, LAMBDA l : l.level = "INFO" /\ l.table = t)

\* insert_batches has returned for table t
Loaded(t) ==
    \/ pc = "load" /\ TableIdx(t) < idx
    \/ pc = "commit"
    \/ Ops("commit") # {}

RECURSIVE ConcatChunks(_, _, _)
ConcatChunks(rows, evs, k) ==
    IF k > Len(evs) THEN <<>>
    ELSE Batch(rows, evs[k].at) \o ConcatChunks(rows, evs, k + 1)

\* C14: the insert statements of a table start at the offsets 0, B, 2B, ...
\* below the number of rows n, each chunk has between 1 and B rows, and
\* every statement that returned wrote one progress log entry naming its
\* range; once insert_batches has returned for n > 0 rows it has issued
\* ceil(n / B) statements and written as many log entries, every chunk but
\* the last has B rows, the chunks put end to end are the input rows, and
\* (into an empty table, the keys distinct) the table holds those rows in
\* that order.
C14_Chunking ==
    \A t \in TableNames :
        LET rows == TuplesOf(t).rows
            n    == Len(rows)
            evs  == InsertsOf(t)
            logs == ProgressOf(t)
        IN  /\ \A k \in DOMAIN evs :
                    /\ evs[k].at = (k - 1) * BATCH_SIZE
                    /\ evs[k].at < n
                    /\ Len(Batch(rows, evs[k].at)) \in 1..BATCH_SIZE
                    /\ k < Len(evs) => evs[k].ok /\ Len(Batch(rows, evs[k].at)) = BATCH_SIZE
            /\ Len(logs) = Cardinality({k \in DOMAIN evs : evs[k].ok})
            /\ \A k \in DOMAIN logs :
                    /\ logs[k].from = evs[k].at
                    /\ logs[k].to = logs[k].from + Len(Batch(rows, evs[k].at))
            /\ (Loaded(t) /\ n > 0) =>
                    /\ Len(evs) = Chunks(n)
                    /\ Len(logs) = Chunks(n)
                    /\ ConcatChunks(rows, evs, 1) = rows
                    /\ (pc \in {"load", "commit"} /\ dbStart[t] = <<>>
                            /\ Cardinality(KeysOf(rows)) = n) => txn[t] = rows

\* C14 witness: a table of MaxRows rows, more than one chunk, was loaded in
\* ceil(MaxRows / BATCH_SIZE) statements, the last chunk shorter than the
\* others.
C14_Witness ==
    /\ Loaded("vehicle")
    /\ Len(TuplesOf("vehicle").rows) = MaxRows
    /\ Len(InsertsOf("vehicle")) = Chunks(MaxRows)
    /\ Len(InsertsOf("vehicle")) >= 2
    /\ Len(ProgressOf("vehicle")) = Len(InsertsOf("vehicle"))
    /\ ProgressOf("vehicle")[Chunks(MaxRows)].to = MaxRows
    /\ MaxRows % BATCH_SIZE # 0

\* the warnings insert_batches wrote for table t in this run
WarningsOf(t) == SelectSeq(loaderLog, LAMBDA l : l.level = "WARNING" /\ l.table = t)

\* C15: a table without rows gets one warning and no insert statement, and
\* the loader goes on to the next table (or to the commit); a warning is
\* written for an empty table only; and a load failure of a table is always
\* the failure of one of its insert statements, never its emptiness.
C15_ZeroRows ==
    \A t \in TableNames :
        LET n == Len(TuplesOf(t).rows)
        IN  /\ (Loaded(t) /\ TuplesOf(t).err = "none" /\ n = 0) =>
                    /\ InsertsOf(t) = <<>>
                    /\ Len(WarningsOf(t)) = 1
            /\ WarningsOf(t) # <<>> =>
                    /\ n = 0 /\ InsertsOf(t) = <<>>
                    /\ origErr.table # t
                    /\ pc = "load" => idx > TableIdx(t)
            /\ (origErr.type = "LoadFailure" /\ origErr.table = t) =>
                    /\ n > 0
                    /\ InsertsOf(t) # <<>> /\ ~InsertsOf(t)[Len(InsertsOf(t))].ok

\* C15 witness: Pricing had no rows, got its warning and no statement, the
\* other five tables were loaded and the run committed.
C15_Witness ==
    /\ Done /\ raised = NoErr
    /\ OkOps("commit") # {}
    /\ TuplesOf("pricing").rows = <<>>
    /\ Len(WarningsOf("pricing")) = 1 /\ InsertsOf("pricing") = <<>>
    /\ \A t \in TableNames \ {"pricing"} : InsertsOf(t) # <<>>

\* C17: when conn.commit() fails, the error is caught like a load failure:
\* a rollback is attempted after it, nothing was committed and the
\* destination is as the run found it, and main() ends by raising the commit
\* error, the connection closed by a close that is the last call on it.
C17_CommitFailure ==
    \A c \in FailedOps("commit") :
        /\ origErr = Err("CommitError", "", 0)
        /\ OkOps("commit") = {}
        /\ db = dbStart
        /\ pc \in {"finally", "done"} => \E j \in Ops("rollback") : j > c
        /\ Done =>
                /\ raised = origErr
                /\ conn = "closed"
                /\ Ops("close") = {Len(hist)}

\* C17 witness: all six tables were loaded, the commit failed, the rollback
\* returned, and main() raised the commit error with the connection closed.
C17_Witness ==
    /\ Done
    /\ FailedOps("commit") # {}
    /\ OkOps("rollback") # {}
    /\ Cardinality(OkOps("insert")) >= Len(Tables)
    /\ raised.type = "CommitError"
    /\ conn = "closed"

\* every table was read, validated and cleaned without error, and main()
\* holds the cleaned tables
AllCleaned ==
    \A t \in TableNames :
        /\ src[t].exists
        /\ MissingCols(src[t].df, RequiredCols(t)) = {}
        /\ Clean(t, src[t].df).err = "none"
        /\ dfs[t] = Clean(t, src[t].df).df

\* C18: get_conn() is called only when all six tables have been read,
\* validated and cleaned; when it raises, no call at all is made on a
\* connection in this run (no insert, commit, rollback or close), the
\* destination is unchanged, and the error main() raises is the connect
\* error.
C18_ConnectFailure ==
    /\ pc = "connect" => AllCleaned /\ hist = <<>>
    /\ origErr.type = "ConnectError" =>
            /\ AllCleaned
            /\ pc \in {"except", "finally", "done"}
            /\ hist = <<>>
            /\ conn = "none"
            /\ db = dbStart
            /\ pending = origErr
            /\ Done => raised = origErr

\* C18 witness: the tables were cleaned, get_conn() raised, and main() ended
\* with the connect error without a single call on a connection.
C18_Witness ==
    /\ Done
    /\ raised = Err("ConnectError", "", 0)
    /\ hist = <<>>
    /\ conn = "none"
    /\ Len(dfs["core"].rows) = MaxRows

\* main() has returned normally
Committed == Done /\ raised = NoErr

\* main() has raised
Failed == Done /\ raised # NoErr

\* what holds of the calls made so far in a run
OneOutcome ==
    /\ Done => (Committed <=> OkOps("commit") # {})
    /\ Done => (Failed <=> origErr # NoErr)
    /\ OkOps("commit") # {} => Ops("rollback") = {} /\ origErr = NoErr
    /\ Ops("commit") # {} =>
            /\ FailedOps("insert") = {}
            /\ origErr.type \notin {"LoadFailure", "KeyError"}
    /\ \A r \in Ops("rollback") : \A c \in Ops("commit") : ~hist[c].ok /\ c < r

\* where main() is, as a number that grows along the code
StageNo ==
    CASE pc = "read"     -> 1
      [] pc = "validate" -> 2
      [] pc = "clean"    -> 3
      [] pc = "connect"  -> 4
      [] pc = "load"     -> 5
      [] pc = "commit"   -> 6
      [] pc = "except"   -> 7
      [] pc = "finally"  -> 8
      [] pc = "done"     -> 9

\* a step within a run moves main() forward: to a later stage, to a later
\* table of the stage, or to a later chunk of the table
Forward ==
    \/ run' > run
    \/ /\ run' = run
       /\ \/ StageNo' > StageNo
          \/ StageNo' = StageNo /\ idx' > idx /\ idx' <= Len(Tables)
          \/ /\ StageNo' = StageNo /\ idx' = idx /\ start' > start
             /\ start' < Len(Materialized.rows)

\* a statement of main() is the next to run
StatementLeft ==
    \/ /\ pc \in {"read", "validate", "clean"}
       /\ idx \in DOMAIN Tables
    \/ pc \in {"connect", "commit", "except", "finally"}
    \/ /\ pc = "load"
       /\ idx \in DOMAIN LoadOrder
       /\ \/ Materialized.err # "none"
          \/ Materialized.rows = <<>>
          \/ start < Len(Materialized.rows)

\* C19: every run of main() comes to its end (each step moves it forward
\* through finitely many positions, and until it has ended a statement is
\* left to run), and it ends in exactly one of two ways: it returns
\* normally, which it does exactly when the commit succeeded, or it raises;
\* no rollback is issued once a commit has succeeded, and no commit is
\* issued once a load has failed.
C19_ExactlyOneOutcome ==
    [][/\ Forward
       /\ OneOutcome /\ OneOutcome'
       /\ Done' \/ StatementLeft'
      ]_vars

\* C19 witness: the first run committed and the second run, on the same
\* data, failed in a load and was rolled back.
C19_Witness ==
    /\ run = 2 /\ commits = 1
    /\ Failed
    /\ FailedOps("insert") # {}
    /\ OkOps("rollback") # {}
    /\ Ops("commit") = {}

(***************************************************************************)
(* Termination of the cleaners (SpecClean).                                *)
(***************************************************************************)
\* C16: every cleaner returns normally on every raw table that has the
\* validated columns: no raw cell, whatever its rule makes of it, makes a
\* cleaner raise.
C16_CleaningNeverRaises == cstage = "cleaned" => out.err = "none"

=============================================================================
